---- MODULE Spec2Model ----
(***************************************************************************)
(* Model of the Cursive root object and its event loop                     *)
(* (src/src/views/classic.rs): screens, active screen, global callback     *)
(* table, menu bar, layer-size cache, running flag, asynchronous callback  *)
(* channel, and the phases of step().                                      *)
(*                                                                         *)
(* The loop thread's methods are operators over a record `s' holding the   *)
(* fields of the Cursive struct, so that a callback (which receives        *)
(* &mut Cursive) can call them from inside an action.  step() is split at  *)
(* the points where another thread can be observed: each try_recv() of the *)
(* drain, the try_recv() that ends it, and the blocking poll_event().      *)
(***************************************************************************)
EXTENDS Integers, Sequences, FiniteSets, TLC

VARIABLES
    screens,          \* Cursive.screens: sequence of layer stacks (id i is screens[i+1])
    active_screen,    \* Cursive.active_screen
    global_callbacks, \* Cursive.global_callbacks: event -> sequence of callbacks
    menubar,          \* Cursive.menubar: [autohide, state]
    last_sizes,       \* Cursive.last_sizes
    running,          \* Cursive.running
    queue,            \* content of the cb_sink/cb_source channel
    term_size,        \* what backend.screen_size() returns
    finish_calls,     \* number of backend.finish() calls
    pc,               \* position of the loop thread
    in_run,           \* TRUE while the loop thread is inside run()
    snapshot,         \* the queue as it was when the current step began
    drained,          \* callbacks the drain of the current step has run
    obs,              \* what the last method call did (its arguments and effects)
    theme,            \* Cursive.theme
    fps,              \* the refresh rate the backend was given
    trail,            \* the phases the step under way has gone through
    script,           \* events a scripted backend still has to return
    frames            \* layout/draw cycles performed against the scripted backend

vars == <<screens, active_screen, global_callbacks, menubar, last_sizes,
          running, queue, term_size, finish_calls, pc, in_run, snapshot,
          drained, obs, theme, fps, trail, script, frames>>

mock == <<script, frames>>

----------------------------------------------------------------------------
(* Bounds *)

MaxScreens == 3
MaxLayers == 2
MaxQueue == 2
MaxCallbacks == 2
MaxHeight == 2
MaxIdle == 3
MaxPos == 2
MaxFrames == 3

(* The sizes the terminal takes, and the size every layer asks for. *)
TermSizes == {<<2, 0>>, <<2, MaxHeight>>}
LayerReq == <<2, MaxHeight>>

----------------------------------------------------------------------------
(* Events (event::Event): structural equality is the hotkey key. *)

Refresh == [kind |-> "Refresh"]
Exit == [kind |-> "Exit"]
WindowResize == [kind |-> "WindowResize"]
CharQ == [kind |-> "Char"]
Mouse(grabs, pos) == [kind |-> "Mouse", grabs |-> grabs, pos |-> pos]

MouseEvents ==
    {Mouse(TRUE, <<0, 0>>), Mouse(TRUE, <<0, 1>>),
     Mouse(FALSE, <<0, 0>>), Mouse(FALSE, <<0, 1>>)}
Events == {Refresh, Exit, WindowResize, CharQ} \cup MouseEvents

(* Events the application binds global callbacks to. *)
HotkeyEvents == {CharQ, Exit}

(* Callbacks name what the closure does with the &mut Cursive it receives. *)
Callbacks == {"quit", "add_layer", "pop_layer", "add_active_screen",
              "select_menubar", "noop"}

(* event::EventResult *)
Ignored == [kind |-> "Ignored"]
ConsumedNone == [kind |-> "Consumed", cb |-> "none"]
Consumed(cb) == [kind |-> "Consumed", cb |-> cb]
EventResults(deferred) == {Ignored, ConsumedNone} \cup {Consumed(cb) : cb \in deferred}

MenubarStates == {"Inactive", "Selected", "Submenu"}

Min(a, b) == IF a <= b THEN a ELSE b

IsPrefix(p, q) == Len(p) <= Len(q) /\ \A i \in 1..Len(p) : p[i] = q[i]

----------------------------------------------------------------------------
(* Vec2 *)

(* Vec2::saturating_sub: componentwise, never below zero. *)
SaturatingSub(a, b) ==
    <<IF a[1] >= b[1] THEN a[1] - b[1] ELSE 0,
      IF a[2] >= b[2] THEN a[2] - b[2] ELSE 0>>

Vec2Min(a, b) == <<Min(a[1], b[1]), Min(a[2], b[2])>>

(* Event::relativized: a mouse position is shifted by subtracting the      *)
(* offset, every other event passes through unchanged.                     *)
Relativized(event, offset) ==
    IF event.kind = "Mouse"
    THEN [event EXCEPT !.pos = SaturatingSub(event.pos, offset)]
    ELSE event

GrabsFocus(event) == event.kind = "Mouse" /\ event.grabs

----------------------------------------------------------------------------
(* The Cursive struct as a record.  Besides the fields of the struct and   *)
(* the state of the backend, the record carries a trace of the method      *)
(* call under way: what it returns, backend.clear() calls issued, global   *)
(* callbacks fired, the size layout offered, where dispatch routed the     *)
(* event, and whether the call panicked.                                   *)

Cur ==
    [screens |-> screens, active_screen |-> active_screen,
     global_callbacks |-> global_callbacks, menubar |-> menubar,
     last_sizes |-> last_sizes, running |-> running, queue |-> queue,
     term_size |-> term_size, theme |-> theme, fps |-> fps, trail |-> trail,
     ret |-> "none", clears |-> 0, fired |-> <<>>, offered |-> <<>>,
     redirect |-> FALSE, action |-> "none", deferred |-> <<>>,
     offsets |-> <<>>,
     route |-> "none", delivered |-> <<>>, result |-> "none", panicked |-> FALSE]

(* StackView and Menubar, as far as the root uses them. *)

StackViewNew == <<>>

(* Where a layer is placed: floating at the centre, floating at a       *)
(* position it was moved to, or covering the whole screen.               *)
Placements == {"Center", "Moved", "Fullscreen"}

(* StackView::add_layer: the new layer floats at the centre and has no   *)
(* size until the next layout.                                           *)
StackAddLayer(layers) ==
    Append(layers, [size |-> <<0, 0>>, placement |-> "Center"])

(* StackView::add_fullscreen_layer *)
StackAddFullscreenLayer(layers) ==
    Append(layers, [size |-> <<0, 0>>, placement |-> "Fullscreen"])

(* StackView::reposition_layer: the layer counted from the back, if there *)
(* is one and it floats, is moved.                                        *)
StackRepositionLayer(layers, layer, position) ==
    IF layer < Len(layers) /\ layers[layer + 1].placement # "Fullscreen"
    THEN [layers EXCEPT ![layer + 1].placement = position]
    ELSE layers

(* StackView::pop_layer *)
StackPopLayer(layers) ==
    IF layers = <<>> THEN layers ELSE SubSeq(layers, 1, Len(layers) - 1)

(* StackView::layout: every layer gets the size it asks for, cut to what is offered. *)
StackLayout(layers, size) ==
    [i \in 1..Len(layers) |-> [layers[i] EXCEPT !.size = Vec2Min(LayerReq, size)]]

(* StackView::layer_sizes *)
LayerSizes(layers) == [i \in 1..Len(layers) |-> layers[i].size]

(* StackView::on_event: the top layer decides; without layers the event is ignored. *)
StackOnEvent(layers, choice) == IF layers = <<>> THEN Ignored ELSE choice

MenubarNew == [autohide |-> TRUE, state |-> "Inactive"]
ReceiveEvents(m) == m.state # "Inactive"
HasSubmenu(m) == m.state = "Submenu"
TakeFocus(m) == [m EXCEPT !.state = "Selected"]

(* Cursive methods *)

(* Cursive::quit *)
Quit(s) == [s EXCEPT !.running = FALSE]

(* Cursive::clear *)
Clear(s) == [s EXCEPT !.clears = @ + 1]

(* Themes, the toml texts the application may hand to load_theme, and    *)
(* the files it may name: two texts are valid toml for a theme, one is   *)
(* not; one of the files does not exist.                                 *)
Themes == {"default", "dark", "light"}
Contents == {"dark toml", "light toml", "not toml"}
Filenames == {"dark.toml", "broken.toml", "missing.toml"}

(* theme::load_theme: the theme a text describes, or an error. *)
ThemeLoadTheme(content) ==
    CASE content = "dark toml" -> [ok |-> TRUE, theme |-> "dark"]
      [] content = "light toml" -> [ok |-> TRUE, theme |-> "light"]
      [] OTHER -> [ok |-> FALSE, theme |-> "none"]

(* theme::load_theme_file: reads the file and loads its content. *)
ThemeLoadThemeFile(filename) ==
    CASE filename = "dark.toml" -> ThemeLoadTheme("dark toml")
      [] filename = "broken.toml" -> ThemeLoadTheme("not toml")
      [] OTHER -> [ok |-> FALSE, theme |-> "none"]

(* Cursive::set_theme *)
SetTheme(s, new_theme) == Clear([s EXCEPT !.theme = new_theme])

(* A load that falls back to the default theme when the text is invalid. *)
LoadThemeOrDefault(s, content) ==
    LET loaded == ThemeLoadTheme(content)
    IN  IF loaded.ok
        THEN [SetTheme(s, loaded.theme) EXCEPT !.ret = "Ok"]
        ELSE [SetTheme(s, "default") EXCEPT !.ret = "Err"]

(* Cursive::load_theme: try! returns the error before set_theme is called. *)
LoadTheme(s, content) ==
    LET loaded == ThemeLoadTheme(content)
    IN  IF loaded.ok
        THEN [SetTheme(s, loaded.theme) EXCEPT !.ret = "Ok"]
        ELSE [s EXCEPT !.ret = "Err"]

(* Cursive::load_theme_file *)
LoadThemeFile(s, filename) ==
    LET loaded == ThemeLoadThemeFile(filename)
    IN  IF loaded.ok
        THEN [SetTheme(s, loaded.theme) EXCEPT !.ret = "Ok"]
        ELSE [s EXCEPT !.ret = "Err"]

(* Cursive::select_menubar *)
SelectMenubar(s) == [s EXCEPT !.menubar = TakeFocus(@)]

(* Cursive::set_autohide_menu *)
SetAutohideMenu(s, autohide) == [s EXCEPT !.menubar.autohide = autohide]

(* Cursive::set_fps: hands the rate to backend.set_refresh_rate. *)
SetFps(s, rate) == [s EXCEPT !.fps = rate]

(* Cursive::screen *)
Screen(s) == s.screens[s.active_screen + 1]

(* An add_screen that returns the number of screens after the push. *)
AddScreenCountAfter(s) ==
    [s EXCEPT !.screens = Append(@, StackViewNew), !.ret = Len(s.screens) + 1]

(* Cursive::add_screen: the new id is the previous length. *)
AddScreen(s) ==
    LET res == Len(s.screens)
    IN  [s EXCEPT !.screens = Append(@, StackViewNew), !.ret = res]

(* A set_screen that forgets the cached layer sizes. *)
SetScreenForgetsSizes(s, screen_id) ==
    IF screen_id >= Len(s.screens)
    THEN [s EXCEPT !.panicked = TRUE]
    ELSE [s EXCEPT !.active_screen = screen_id, !.last_sizes = <<>>]

(* A set_screen that clamps an invalid id to the last screen. *)
SetScreenClamped(s, screen_id) ==
    [s EXCEPT !.active_screen = Min(screen_id, Len(s.screens) - 1)]

(* A set_screen without the check of the id. *)
SetScreenUnchecked(s, screen_id) == [s EXCEPT !.active_screen = screen_id]

(* Cursive::set_screen *)
SetScreen(s, screen_id) ==
    IF screen_id >= Len(s.screens)
    THEN [s EXCEPT !.panicked = TRUE]
    ELSE [s EXCEPT !.active_screen = screen_id]

(* Cursive::add_active_screen *)
AddActiveScreen(s) ==
    LET added == AddScreen(s) IN SetScreen(added, added.ret)

(* An add_layer that pushes the layer on the first screen. *)
AddLayerFirstScreen(s) == [s EXCEPT !.screens[1] = StackAddLayer(@)]

(* Cursive::add_layer *)
AddLayer(s) == [s EXCEPT !.screens[s.active_screen + 1] = StackAddLayer(@)]

(* Cursive::add_fullscreen_layer *)
AddFullscreenLayer(s) ==
    [s EXCEPT !.screens[s.active_screen + 1] = StackAddFullscreenLayer(@)]

(* Cursive::reposition_layer *)
RepositionLayer(s, layer, position) ==
    [s EXCEPT !.screens[s.active_screen + 1] =
                  StackRepositionLayer(@, layer, position)]

(* Cursive::pop_layer *)
PopLayer(s) == [s EXCEPT !.screens[s.active_screen + 1] = StackPopLayer(@)]

(* Cursive::add_global_callback *)
AddGlobalCallback(s, event, cb) ==
    [s EXCEPT !.global_callbacks[event] = Append(@, cb)]

(* A clear_global_callbacks that empties the whole table. *)
ClearEveryGlobalCallback(s, event) ==
    [s EXCEPT !.global_callbacks = [e \in DOMAIN @ |-> <<>>]]

(* Cursive::clear_global_callbacks *)
ClearGlobalCallbacks(s, event) ==
    [s EXCEPT !.global_callbacks[event] = <<>>]

(* Invoking a callback with the root. *)
Call(s, cb) ==
    CASE cb = "quit" -> Quit(s)
      [] cb = "add_layer" -> AddLayer(s)
      [] cb = "pop_layer" -> PopLayer(s)
      [] cb = "add_active_screen" -> AddActiveScreen(s)
      [] cb = "select_menubar" -> SelectMenubar(s)
      [] cb = "toggle_autohide" -> SetAutohideMenu(s, ~s.menubar.autohide)
      [] cb = "add_callback" -> AddGlobalCallback(s, CharQ, "noop")
      [] cb = "resend" -> [s EXCEPT !.queue = Append(@, "resend")]
      [] cb = "send_noop" -> [s EXCEPT !.queue = Append(@, "noop")]
      [] cb = "clear_callbacks" -> ClearGlobalCallbacks(s, CharQ)
      [] OTHER -> s

RECURSIVE CallEach(_, _)
CallEach(s, cb_list) ==
    IF cb_list = <<>> THEN s
    ELSE CallEach([Call(s, Head(cb_list)) EXCEPT !.fired = Append(@, Head(cb_list))],
                  Tail(cb_list))

(* An on_event that stops after the first callback of the list. *)
OnEventFirstOnly(s, event) ==
    LET cb_list == s.global_callbacks[event]
    IN  CallEach(s, IF cb_list = <<>> THEN <<>> ELSE <<Head(cb_list)>>)

(* An on_event that reads the table again after the first callback. *)
OnEventRereads(s, event) ==
    LET cb_list == s.global_callbacks[event]
    IN  IF cb_list = <<>> THEN s
        ELSE LET s1 == CallEach(s, <<Head(cb_list)>>)
             IN  CallEach(s1, IF s1.global_callbacks[event] = <<>> THEN <<>>
                              ELSE Tail(s1.global_callbacks[event]))

(* Cursive::on_event: the callbacks bound to the event, cloned, run in order. *)
OnEvent(s, event) ==
    LET cb_list == s.global_callbacks[event] IN CallEach(s, cb_list)

(* Cursive::screen_size *)
ScreenSize(s) == s.term_size

MenuOffset(m) == IF m.autohide THEN 0 ELSE 1

(* A layout that forgets the menu bar's row. *)
LayoutFullSize(s) ==
    [s EXCEPT !.screens[s.active_screen + 1] = StackLayout(@, ScreenSize(s)),
              !.offered = ScreenSize(s),
              !.offsets = Append(@, <<"layout", 0>>)]

(* Cursive::layout *)
Layout(s) ==
    LET offset == MenuOffset(s.menubar)
        size == SaturatingSub(ScreenSize(s), <<0, offset>>)
    IN  [s EXCEPT !.screens[s.active_screen + 1] = StackLayout(@, size),
                  !.offered = size,
                  !.offsets = Append(@, <<"layout", offset>>)]

(* A draw that clears on every frame. *)
DrawAlwaysClear(s) ==
    [Clear(s) EXCEPT !.last_sizes = LayerSizes(Screen(s)),
                     !.offsets = Append(@, <<"draw", MenuOffset(s.menubar)>>)]

(* A draw that prints the screen from the top row, menu bar or not. *)
DrawAtTop(s) ==
    LET sizes == LayerSizes(Screen(s))
        s1 == IF s.last_sizes # sizes
              THEN [Clear(s) EXCEPT !.last_sizes = sizes]
              ELSE s
    IN  [s1 EXCEPT !.offsets = Append(@, <<"draw", 0>>)]

(* Cursive::draw: the clear, the cache and the row the screen's printer *)
(* starts at; printing changes no state.                                *)
Draw(s) ==
    LET sizes == LayerSizes(Screen(s))
        s1 == IF s.last_sizes # sizes
              THEN [Clear(s) EXCEPT !.last_sizes = sizes]
              ELSE s
        offset == MenuOffset(s1.menubar)
    IN  [s1 EXCEPT !.offsets = Append(@, <<"draw", offset>>)]

(* The deferred action an answer carries, if any. *)
ActionOf(result) == IF result.kind = "Consumed" THEN result.cb ELSE "none"

(* A deferred action is invoked with the root. *)
Invoke(s, cb) == [Call(s, cb) EXCEPT !.deferred = Append(@, cb)]

(* EventResult::process *)
Process(s, result) ==
    IF result.kind = "Consumed" /\ result.cb # "none"
    THEN Invoke(s, result.cb) ELSE s

(* The test of run()'s while loop. *)
RunOnlyOnce(s) == FALSE

RunContinues(s) == s.running

(* A pre-dispatch that lets the exit event through without stopping the loop. *)
PreDispatchNoExit(s, event) ==
    LET s2 == IF event = WindowResize THEN Clear(s) ELSE s
    IN  IF /\ GrabsFocus(event)
           /\ ~s2.menubar.autohide
           /\ ~HasSubmenu(s2.menubar)
           /\ event.pos[2] = 0
        THEN [SelectMenubar(s2) EXCEPT !.redirect = TRUE]
        ELSE s2

(* A pre-dispatch that clears on a resize only when the layer sizes differ *)
(* from the cached ones.                                                   *)
PreDispatchClearIfChanged(s, event) ==
    LET s1 == IF event = Exit THEN Quit(s) ELSE s
        s2 == IF event = WindowResize /\ LayerSizes(Screen(s1)) # s1.last_sizes
              THEN Clear(s1) ELSE s1
    IN  IF /\ GrabsFocus(event)
           /\ ~s2.menubar.autohide
           /\ ~HasSubmenu(s2.menubar)
           /\ event.pos[2] = 0
        THEN [SelectMenubar(s2) EXCEPT !.redirect = TRUE]
        ELSE s2

(* A pre-dispatch that redirects focus-grabbing mouse events of any row. *)
PreDispatchAnyRow(s, event) ==
    LET s1 == IF event = Exit THEN Quit(s) ELSE s
        s2 == IF event = WindowResize THEN Clear(s1) ELSE s1
    IN  IF /\ GrabsFocus(event)
           /\ ~s2.menubar.autohide
           /\ ~HasSubmenu(s2.menubar)
        THEN [SelectMenubar(s2) EXCEPT !.redirect = TRUE]
        ELSE s2

(* step(), from the return of poll_event to the end: pre-dispatch handling *)
(* and dispatch.  `answer' is what the view that receives the event (the   *)
(* menu bar or the top layer of the screen) returns, menu_state the state  *)
(* Menubar::on_event leaves the menu bar in.                               *)
PreDispatch(s, event) ==
    LET s1 == IF event = Exit THEN Quit(s) ELSE s
        s2 == IF event = WindowResize THEN Clear(s1) ELSE s1
    IN  IF /\ GrabsFocus(event)
           /\ ~s2.menubar.autohide
           /\ ~HasSubmenu(s2.menubar)
           /\ event.pos[2] = 0
        THEN [SelectMenubar(s2) EXCEPT !.redirect = TRUE]
        ELSE s2

(* A dispatch that drops the deferred action of the screen's answer. *)
DispatchDropsAction(s, event, answer, menu_state) ==
    IF ReceiveEvents(s.menubar)
    THEN Process([s EXCEPT !.menubar.state = menu_state,
                           !.route = "menubar", !.delivered = event,
                           !.result = answer.kind,
                           !.action = ActionOf(answer)],
                 answer)
    ELSE LET offset == MenuOffset(s.menubar)
             result == StackOnEvent(Screen(s), answer)
             s1 == [s EXCEPT !.route = "screen",
                             !.delivered = Relativized(event, <<0, offset>>),
                             !.result = result.kind,
                             !.action = ActionOf(result),
                             !.offsets = Append(@, <<"dispatch", offset>>)]
         IN  CASE result = Ignored -> OnEvent(s1, event)
               [] OTHER -> s1

(* A dispatch that hands every event to the screen. *)
DispatchScreenOnly(s, event, answer, menu_state) ==
    LET offset == MenuOffset(s.menubar)
        result == StackOnEvent(Screen(s), answer)
        s1 == [s EXCEPT !.route = "screen",
                        !.delivered = Relativized(event, <<0, offset>>),
                        !.result = result.kind,
                        !.action = ActionOf(result),
                        !.offsets = Append(@, <<"dispatch", offset>>)]
    IN  CASE result = Ignored -> OnEvent(s1, event)
          [] result = ConsumedNone -> s1
          [] OTHER -> Invoke(s1, result.cb)

(* A dispatch that looks the relativized event up in the callback table. *)
DispatchRelativizedLookup(s, event, answer, menu_state) ==
    IF ReceiveEvents(s.menubar)
    THEN Process([s EXCEPT !.menubar.state = menu_state,
                           !.route = "menubar", !.delivered = event,
                           !.result = answer.kind,
                           !.action = ActionOf(answer)],
                 answer)
    ELSE LET offset == MenuOffset(s.menubar)
             result == StackOnEvent(Screen(s), answer)
             s1 == [s EXCEPT !.route = "screen",
                             !.delivered = Relativized(event, <<0, offset>>),
                             !.result = result.kind,
                             !.action = ActionOf(result),
                             !.offsets = Append(@, <<"dispatch", offset>>)]
         IN  CASE result = Ignored -> OnEvent(s1, s1.delivered)
               [] result = ConsumedNone -> s1
               [] OTHER -> Invoke(s1, result.cb)

(* A dispatch that runs the global callbacks whatever the screen answered. *)
DispatchAlwaysGlobal(s, event, answer, menu_state) ==
    IF ReceiveEvents(s.menubar)
    THEN Process([s EXCEPT !.menubar.state = menu_state,
                           !.route = "menubar", !.delivered = event,
                           !.result = answer.kind,
                           !.action = ActionOf(answer)],
                 answer)
    ELSE LET offset == MenuOffset(s.menubar)
             result == StackOnEvent(Screen(s), answer)
             s1 == [s EXCEPT !.route = "screen",
                             !.delivered = Relativized(event, <<0, offset>>),
                             !.result = result.kind,
                             !.action = ActionOf(result),
                             !.offsets = Append(@, <<"dispatch", offset>>)]
         IN  Process(OnEvent(s1, event), result)

Dispatch(s, event, answer, menu_state) ==
    IF ReceiveEvents(s.menubar)
    THEN Process([s EXCEPT !.menubar.state = menu_state,
                           !.route = "menubar", !.delivered = event,
                           !.result = answer.kind,
                           !.action = ActionOf(answer)],
                 answer)
    ELSE LET offset == MenuOffset(s.menubar)
             result == StackOnEvent(Screen(s), answer)
             s1 == [s EXCEPT !.route = "screen",
                             !.delivered = Relativized(event, <<0, offset>>),
                             !.result = result.kind,
                             !.action = ActionOf(result),
                             !.offsets = Append(@, <<"dispatch", offset>>)]
         IN  CASE result = Ignored -> OnEvent(s1, event)
               [] result = ConsumedNone -> s1
               [] OTHER -> Invoke(s1, result.cb)

----------------------------------------------------------------------------
(* Actions *)

NoObs == [kind |-> "none"]

Install(s) ==
    /\ screens' = s.screens
    /\ active_screen' = s.active_screen
    /\ global_callbacks' = s.global_callbacks
    /\ menubar' = s.menubar
    /\ last_sizes' = s.last_sizes
    /\ running' = s.running
    /\ queue' = s.queue
    /\ term_size' = s.term_size
    /\ theme' = s.theme
    /\ fps' = s.fps
    /\ trail' = s.trail

RECURSIVE Layers(_)
Layers(stack) ==
    IF stack = <<>> THEN 0 ELSE Len(Head(stack)) + Layers(Tail(stack))

RECURSIVE Registered(_, _)
Registered(table, events) ==
    IF events = {} THEN 0
    ELSE LET e == CHOOSE x \in events : TRUE
         IN  Len(table[e]) + Registered(table, events \ {e})

WithinBounds(s) ==
    /\ Len(s.screens) <= MaxScreens
    /\ Layers(s.screens) <= MaxLayers
    /\ Registered(s.global_callbacks, Events) <= MaxCallbacks
    /\ Len(s.queue) <= MaxQueue

(* A method the application calls on the root between steps. *)
Api(s, o) ==
    /\ pc = "idle"
    /\ WithinBounds(s)
    /\ Install(s)
    /\ pc' = IF s.panicked THEN "panicked" ELSE "idle"
    /\ obs' = o
    /\ UNCHANGED <<finish_calls, in_run, snapshot, drained>>
    /\ UNCHANGED mock

ApiAddScreen ==
    LET s == AddScreen(Cur) IN Api(s, [kind |-> "add_screen", id |-> s.ret])

ApiAddActiveScreen ==
    LET s == AddActiveScreen(Cur)
    IN  Api(s, [kind |-> "add_active_screen", id |-> s.ret])

ApiSetScreen ==
    \E screen_id \in 0..MaxScreens :
        Api(SetScreen(Cur, screen_id), [kind |-> "set_screen", id |-> screen_id])

ApiAddLayer == Api(AddLayer(Cur), [kind |-> "add_layer"])

ApiAddFullscreenLayer ==
    Api(AddFullscreenLayer(Cur), [kind |-> "add_fullscreen_layer"])

ApiPopLayer == Api(PopLayer(Cur), [kind |-> "pop_layer"])

ApiRepositionLayer ==
    \E layer \in 0..(MaxLayers - 1), position \in {"Moved"} :
        Api(RepositionLayer(Cur, layer, position),
            [kind |-> "reposition_layer", layer |-> layer, position |-> position])

ApiAddGlobalCallbackOn(events, cbs) ==
    \E e \in events, cb \in cbs :
        Api(AddGlobalCallback(Cur, e, cb),
            [kind |-> "add_global_callback", event |-> e, cb |-> cb])

ApiAddGlobalCallback(cbs) == ApiAddGlobalCallbackOn(HotkeyEvents, cbs)

ApiClearGlobalCallbacks ==
    \E e \in HotkeyEvents :
        Api(ClearGlobalCallbacks(Cur, e),
            [kind |-> "clear_global_callbacks", event |-> e,
             removed |-> global_callbacks[e]])

ApiSetAutohideMenu ==
    \E autohide \in BOOLEAN : Api(SetAutohideMenu(Cur, autohide), NoObs)

ApiSelectMenubar == Api(SelectMenubar(Cur), NoObs)

ApiQuit == Api(Quit(Cur), NoObs)

ApiSetTheme ==
    \E new_theme \in Themes :
        LET s == SetTheme(Cur, new_theme)
        IN  Api(s, [kind |-> "set_theme", clears |-> s.clears])

ApiLoadTheme ==
    \E content \in Contents :
        LET s == LoadTheme(Cur, content)
        IN  Api(s, [kind |-> "load_theme", loaded |-> ThemeLoadTheme(content),
                    ret |-> s.ret, clears |-> s.clears])

ApiLoadThemeFile ==
    \E filename \in Filenames :
        LET s == LoadThemeFile(Cur, filename)
        IN  Api(s, [kind |-> "load_theme", loaded |-> ThemeLoadThemeFile(filename),
                    ret |-> s.ret, clears |-> s.clears])

(* The refresh rates the application asks for: none, and ten per second. *)
RefreshRates == {0, 10}

ApiSetFps ==
    \E rate \in RefreshRates :
        Api(SetFps(Cur, rate), [kind |-> "set_fps", rate |-> rate])

(* The phases of step() in the order of its statements. *)
StepPhases ==
    <<"drain", "layout", "draw", "refresh", "poll_event", "pre-dispatch",
      "dispatch">>

(* A phase of step() is entered. *)
Phase(s, name) == [s EXCEPT !.trail = Append(@, name)]

(* A step that goes straight to layout and draw. *)
EnterStepNoDrain(s, run) ==
    /\ Install(Phase([s EXCEPT !.trail = <<>>], "drain"))
    /\ pc' = "render"
    /\ in_run' = run
    /\ snapshot' = s.queue
    /\ drained' = <<>>

(* Entering step(): the drain starts with the queue as it is now. *)
EnterStep(s, run) ==
    /\ Install(Phase([s EXCEPT !.trail = <<>>], "drain"))
    /\ pc' = "drain"
    /\ in_run' = run
    /\ snapshot' = s.queue
    /\ drained' = <<>>

(* A run() that tests the running flag as it finds it. *)
RunKeepsFlag ==
    /\ pc = "idle"
    /\ IF running
       THEN EnterStep(Cur, TRUE)
       ELSE /\ Install(Cur)
            /\ UNCHANGED <<pc, in_run, snapshot, drained>>
    /\ obs' = [kind |-> "run", was_running |-> running]
    /\ UNCHANGED finish_calls
    /\ UNCHANGED mock

(* Cursive::run up to its first step. *)
Run ==
    /\ pc = "idle"
    /\ EnterStep([Cur EXCEPT !.running = TRUE], TRUE)
    /\ obs' = [kind |-> "run", was_running |-> running]
    /\ UNCHANGED finish_calls
    /\ UNCHANGED mock

(* Cursive::step called by the application. *)
Step ==
    /\ pc = "idle"
    /\ EnterStep(Cur, FALSE)
    /\ obs' = NoObs
    /\ UNCHANGED finish_calls
    /\ UNCHANGED mock

(* A receive that hands out the oldest message and loses the others. *)
TryRecvLosesRest(q) == [cb |-> Head(q), rest |-> <<>>]

(* A receive that hands out the newest message instead of the oldest. *)
TryRecvNewest(q) == [cb |-> q[Len(q)], rest |-> SubSeq(q, 1, Len(q) - 1)]

(* mpsc::Receiver::try_recv on a non-empty channel: the oldest message. *)
TryRecv(q) == [cb |-> Head(q), rest |-> Tail(q)]

(* step(): one iteration of the drain, try_recv() returned a callback. *)
StepRecv ==
    /\ pc = "drain"
    /\ queue # <<>>
    /\ Len(drained) <= MaxQueue
    /\ LET r == TryRecv(queue)
           s == Call([Cur EXCEPT !.queue = r.rest], r.cb)
       IN  /\ WithinBounds(s)
           /\ Install(s)
           /\ drained' = Append(drained, r.cb)
    /\ obs' = NoObs
    /\ UNCHANGED <<finish_calls, pc, in_run, snapshot>>
    /\ UNCHANGED mock

(* A drain that may stop while callbacks are still queued. *)
DrainDoneEarly(q) == TRUE

(* The drain loop ends when try_recv() fails, i.e. the channel is empty. *)
DrainDone(q) == q = <<>>

(* step(): try_recv() found the channel empty, the drain is over. *)
StepDrainEnd ==
    /\ pc = "drain"
    /\ DrainDone(queue)
    /\ pc' = "render"
    /\ obs' = NoObs
    /\ UNCHANGED <<screens, active_screen, global_callbacks, menubar, last_sizes,
                   running, queue, term_size, finish_calls, in_run, snapshot,
                   drained, theme, fps, trail>>
    /\ UNCHANGED mock

(* A frame that draws before it lays out. *)
FrameDrawFirst(s) ==
    Phase(Phase(Layout(Phase(Draw(s), "draw")), "layout"), "refresh")

(* step(): layout, draw, and backend.refresh(). *)
Frame(s) ==
    Phase(Phase(Draw(Phase(Layout(s), "layout")), "draw"), "refresh")

(* step(): layout, draw and refresh, up to the call of poll_event. *)
Render ==
    /\ pc = "render"
    /\ LET s == Frame(Cur)
       IN  /\ Install(Phase(s, "poll_event"))
           /\ obs' = [kind |-> "frame", offered |-> s.offered,
                      offsets |-> s.offsets,
                      cleared |-> s.clears,
                      same |-> (LayerSizes(Screen(s)) = last_sizes),
                      pending |-> queue]
    /\ pc' = "poll"
    /\ UNCHANGED <<finish_calls, in_run, snapshot, drained>>

StepRender == Render /\ UNCHANGED mock

(* step(): poll_event returned `event'; pre-dispatch, dispatch, and the    *)
(* test of the running flag by run().                                      *)
Poll(event, deferred) ==
    /\ pc = "poll"
    /\ LET p == Phase(PreDispatch(Cur, event), "pre-dispatch")
       IN  \E answer \in EventResults(deferred),
              menu_state \in (IF ReceiveEvents(p.menubar)
                              THEN MenubarStates ELSE {p.menubar.state}) :
             LET s == Phase(Dispatch(p, event, answer, menu_state), "dispatch")
             IN  /\ WithinBounds(s)
                 /\ obs' = [kind |-> "dispatch", event |-> event,
                            redirect |-> s.redirect, action |-> s.action,
                            deferred |-> s.deferred,
                            offsets |-> obs.offsets \o s.offsets,
                            route |-> s.route, delivered |-> s.delivered,
                            result |-> s.result, fired |-> s.fired,
                            clears |-> obs.cleared + s.clears, same |-> obs.same,
                            in_run |-> in_run, trail |-> s.trail,
                            pending |-> obs.pending]
                 /\ IF in_run /\ RunContinues(s)
                    THEN EnterStep(s, TRUE)
                    ELSE /\ Install([s EXCEPT !.trail = <<>>])
                         /\ pc' = "idle"
                         /\ in_run' = FALSE
                         /\ snapshot' = <<>>
                         /\ drained' = <<>>
    /\ UNCHANGED finish_calls

StepPoll(events, deferred) ==
    (\E event \in events : Poll(event, deferred)) /\ UNCHANGED mock

(* Backend::poll_event gives up waiting for input and returns the idle   *)
(* marker: it does so only when a refresh rate was set.                  *)
IdleMarker(rate) == rate > 0

StepPollIdle ==
    /\ IdleMarker(fps)
    /\ Poll(Refresh, {})
    /\ UNCHANGED mock

(* A destructor that leaves the backend as it is. *)
DropNoFinish ==
    /\ pc \in {"idle", "panicked"}
    /\ pc' = "dropped"
    /\ obs' = [kind |-> "drop", from |-> pc]
    /\ UNCHANGED <<screens, active_screen, global_callbacks, menubar, last_sizes,
                   running, queue, term_size, finish_calls, in_run, snapshot,
                   drained, theme, fps, trail>>
    /\ UNCHANGED mock

(* impl Drop for Cursive: the root goes out of scope, after a method     *)
(* returned or while a panic unwinds.                                    *)
Drop ==
    /\ pc \in {"idle", "panicked"}
    /\ finish_calls' = finish_calls + 1
    /\ pc' = "dropped"
    /\ obs' = [kind |-> "drop", from |-> pc]
    /\ UNCHANGED <<screens, active_screen, global_callbacks, menubar, last_sizes,
                   running, queue, term_size, in_run, snapshot, drained,
                   theme, fps, trail>>
    /\ UNCHANGED mock

(* Another thread sends a callback through cb_sink. *)
Send(cbs) ==
    /\ pc # "dropped"
    /\ Len(queue) < MaxQueue
    /\ Len(drained) + Len(queue) <= MaxQueue
    /\ \E cb \in cbs : queue' = Append(queue, cb)
    /\ UNCHANGED <<screens, active_screen, global_callbacks, menubar, last_sizes,
                   running, term_size, finish_calls, pc, in_run, snapshot,
                   drained, obs, theme, fps, trail>>
    /\ UNCHANGED mock

(* The terminal is resized. *)
TermResize ==
    /\ pc # "dropped"
    /\ \E size \in TermSizes \ {term_size} : term_size' = size
    /\ UNCHANGED <<screens, active_screen, global_callbacks, menubar, last_sizes,
                   running, queue, finish_calls, pc, in_run, snapshot,
                   drained, obs, theme, fps, trail>>
    /\ UNCHANGED mock

(* Cursive::with_backend *)
Constructed ==
    /\ screens = <<StackViewNew>>
    /\ active_screen = 0
    /\ global_callbacks = [e \in Events |-> <<>>]
    /\ menubar = MenubarNew
    /\ last_sizes = <<>>
    /\ running = TRUE
    /\ queue = <<>>
    /\ finish_calls = 0
    /\ pc = "idle"
    /\ in_run = FALSE
    /\ snapshot = <<>>
    /\ drained = <<>>
    /\ obs = NoObs
    /\ theme = "default"
    /\ fps = 0
    /\ trail = <<>>

Init ==
    /\ Constructed
    /\ term_size \in TermSizes
    /\ script = [events |-> <<>>, next |-> 1]
    /\ frames = 0

(* The whole system: every method, every event, every callback. *)
Next ==
    \/ ApiAddScreen
    \/ ApiAddActiveScreen
    \/ ApiSetScreen
    \/ ApiAddLayer
    \/ ApiAddFullscreenLayer
    \/ ApiPopLayer
    \/ ApiRepositionLayer
    \/ ApiAddGlobalCallback(Callbacks)
    \/ ApiClearGlobalCallbacks
    \/ ApiSetAutohideMenu
    \/ ApiSelectMenubar
    \/ ApiQuit
    \/ ApiSetFps
    \/ ApiSetTheme
    \/ ApiLoadTheme
    \/ ApiLoadThemeFile
    \/ Run
    \/ Step
    \/ StepRecv
    \/ StepDrainEnd
    \/ StepRender
    \/ StepPoll(Events, Callbacks)
    \/ StepPollIdle
    \/ Drop
    \/ Send(Callbacks)
    \/ TermResize

Spec == Init /\ [][Next]_vars

(* The asynchronous queue and the phases of a step: callbacks arrive from  *)
(* other threads while the loop runs.                                      *)
QueueEvents == {Refresh, Exit}
QueueCallbacks == {"quit", "add_layer", "noop"}

NextQueue ==
    \/ Run
    \/ Step
    \/ StepRecv
    \/ StepDrainEnd
    \/ StepRender
    \/ StepPoll(QueueEvents, {})
    \/ Send(QueueCallbacks)

SpecQueue == Init /\ [][NextQueue]_vars

(* Dispatch: the application binds global callbacks, gives the screen a    *)
(* layer that may consume events, selects the menu bar, and steps.         *)
DispatchEvents == {Refresh, CharQ, Exit}
DispatchCallbacks == {"quit", "noop"}

NextDispatch ==
    \/ ApiAddGlobalCallback(DispatchCallbacks)
    \/ ApiClearGlobalCallbacks
    \/ ApiAddLayer
    \/ ApiSelectMenubar
    \/ Run
    \/ Step
    \/ StepDrainEnd
    \/ StepRender
    \/ StepPoll(DispatchEvents, {"pop_layer"})

SpecDispatch == Init /\ [][NextDispatch]_vars

(* Screens and layers: the application adds screens, switches between     *)
(* them and pushes and pops layers between steps; views answer events      *)
(* with deferred actions that do the same.                                 *)
ScreenEvents == {Refresh, CharQ}
ScreenCallbacks == {"pop_layer", "add_active_screen"}

NextScreens ==
    \/ ApiAddScreen
    \/ ApiAddActiveScreen
    \/ ApiSetScreen
    \/ ApiAddLayer
    \/ ApiPopLayer
    \/ Step
    \/ StepDrainEnd
    \/ StepRender
    \/ StepPoll(ScreenEvents, ScreenCallbacks)
    \/ Drop

SpecScreens == Init /\ [][NextScreens]_vars

(* Layout and draw on one screen: layers are pushed and popped, the menu   *)
(* bar's autohide is switched, the terminal is resized and the backend     *)
(* reports it.                                                             *)
DrawEvents == {Refresh, WindowResize}

NextDraw ==
    \/ ApiAddLayer
    \/ ApiPopLayer
    \/ ApiSetAutohideMenu
    \/ Step
    \/ StepDrainEnd
    \/ StepRender
    \/ StepPoll(DrawEvents, {"pop_layer"})
    \/ TermResize

SpecDraw == Init /\ [][NextDraw]_vars

(* The layer-size cache across screens: layers are pushed and popped, the  *)
(* active screen is switched, the terminal is resized and the backend      *)
(* reports it.                                                             *)
NextCache ==
    \/ ApiAddActiveScreen
    \/ ApiSetScreen
    \/ ApiAddLayer
    \/ ApiPopLayer
    \/ Step
    \/ StepDrainEnd
    \/ StepRender
    \/ StepPoll(DrawEvents, {"pop_layer"})
    \/ TermResize

SpecCache == Init /\ [][NextCache]_vars

(* Callbacks that change the table they were taken from: bound to 'q',    *)
(* they bind a further callback to 'q' or remove those bound to it.       *)
SnapshotCallbacks == {"add_callback", "clear_callbacks", "noop"}

SnapshotEvents == {CharQ, Refresh}

NextSnapshot ==
    \/ ApiAddGlobalCallbackOn({CharQ}, SnapshotCallbacks)
    \/ ApiAddLayer
    \/ Step
    \/ StepDrainEnd
    \/ StepRender
    \/ StepPoll(SnapshotEvents, {})

SpecSnapshot == Init /\ [][NextSnapshot]_vars

(* Callbacks that use the sink: one sends a no-op, one sends a copy of    *)
(* itself; other threads send them and no-ops.                            *)
SinkCallbacks == {"resend", "send_noop", "noop"}

NextSink ==
    \/ Step
    \/ StepRecv
    \/ StepDrainEnd
    \/ StepRender
    \/ StepPoll({Refresh}, {})
    \/ Send(SinkCallbacks)

SpecSink == Init /\ [][NextSink]_vars

(* Stopping the loop: other threads send quit, the backend                *)
(* reports the exit event or nothing, callbacks are bound to the exit     *)
(* event and the menu bar may have been given the focus.                  *)
StopCallbacks == {"quit", "noop"}

StopEvents == {Refresh, Exit}

NextStop ==
    \/ ApiAddGlobalCallbackOn({Exit}, StopCallbacks)
    \/ ApiSelectMenubar
    \/ Run
    \/ Step
    \/ StepRecv
    \/ StepDrainEnd
    \/ StepRender
    \/ StepPoll(StopEvents, {})
    \/ Send({"quit"})

SpecStop == Init /\ [][NextStop]_vars

(* Layers on several screens of a terminal that keeps its size: the      *)
(* application adds screens, switches between them, and pushes, pops and *)
(* moves layers; the top layer may answer an event by popping itself.    *)
NextLayers ==
    \/ ApiAddActiveScreen
    \/ ApiSetScreen
    \/ ApiAddLayer
    \/ ApiAddFullscreenLayer
    \/ ApiPopLayer
    \/ ApiRepositionLayer
    \/ Step
    \/ StepDrainEnd
    \/ StepRender
    \/ StepPoll({Refresh}, {"pop_layer"})

InitLayers ==
    /\ Constructed
    /\ term_size = <<2, MaxHeight>>
    /\ script = [events |-> <<>>, next |-> 1]
    /\ frames = 0

SpecLayers == InitLayers /\ [][NextLayers]_vars

(* The loop without input: the application sets a refresh rate and calls *)
(* run(), other threads send callbacks, and poll_event returns only when *)
(* the backend's refresh timer fires.  The loop thread keeps running     *)
(* (weak fairness of its own steps), and with a refresh rate the timer   *)
(* keeps firing (weak fairness of the idle poll); nothing makes another  *)
(* thread send.                                                          *)
LiveCallbacks == {"noop", "quit", "pop_layer"}

NextLive ==
    \/ ApiSetFps
    \/ Run
    \/ StepRecv
    \/ StepDrainEnd
    \/ StepRender
    \/ StepPollIdle
    \/ Send(LiveCallbacks)

SpecLive ==
    /\ Init
    /\ [][NextLive]_vars
    /\ WF_vars(StepRecv)
    /\ WF_vars(StepDrainEnd)
    /\ WF_vars(StepRender)
    /\ WF_vars(StepPollIdle)

(* Themes: the application sets and loads themes, pushes layers and     *)
(* steps; the backend reports idle markers and the exit event.           *)
NextTheme ==
    \/ ApiSetTheme
    \/ ApiLoadTheme
    \/ ApiLoadThemeFile
    \/ ApiAddLayer
    \/ Step
    \/ StepDrainEnd
    \/ StepRender
    \/ StepPoll({Refresh, Exit}, {})

SpecTheme == Init /\ [][NextTheme]_vars

(* The life of a root: the application adds screens, switches between   *)
(* them (a bad id panics), steps or runs the loop until the exit event,  *)
(* and lets the root go out of scope; other threads send callbacks.      *)
NextTeardown ==
    \/ ApiAddScreen
    \/ ApiSetScreen
    \/ Run
    \/ Step
    \/ StepRecv
    \/ StepDrainEnd
    \/ StepRender
    \/ StepPoll({Refresh, Exit}, {})
    \/ Send({"noop"})
    \/ Drop

SpecTeardown == Init /\ [][NextTeardown]_vars

(* Event::relativized on its own: an event and an offset are given, the *)
(* event is relativized by the offset, and the result by the negated     *)
(* offset.                                                               *)
Positions == (0..MaxPos) \X (0..MaxPos)

AnyEvents ==
    {Refresh, Exit, WindowResize, CharQ}
        \cup {Mouse(grabs, pos) : grabs \in BOOLEAN, pos \in Positions}

Negated(offset) == <<0 - offset[1], 0 - offset[2]>>

InitRelativize ==
    /\ \E event \in AnyEvents, offset \in Positions :
         obs = [kind |-> "relativized", event |-> event, offset |-> offset,
                stage |-> "given", out |-> event]
    /\ screens = <<StackViewNew>>
    /\ active_screen = 0
    /\ global_callbacks = [e \in Events |-> <<>>]
    /\ menubar = MenubarNew
    /\ last_sizes = <<>>
    /\ running = TRUE
    /\ queue = <<>>
    /\ finish_calls = 0
    /\ pc = "idle"
    /\ in_run = FALSE
    /\ snapshot = <<>>
    /\ drained = <<>>
    /\ theme = "default"
    /\ fps = 0
    /\ trail = <<>>
    /\ term_size = <<2, MaxHeight>>
    /\ script = [events |-> <<>>, next |-> 1]
    /\ frames = 0

RelativizedThere ==
    /\ obs.kind = "relativized"
    /\ obs.stage = "given"
    /\ obs' = [obs EXCEPT !.stage = "there",
                          !.out = Relativized(obs.event, obs.offset)]
    /\ UNCHANGED <<screens, active_screen, global_callbacks, menubar, last_sizes,
                   running, queue, term_size, finish_calls, pc, in_run, snapshot,
                   drained, theme, fps, trail>>
    /\ UNCHANGED mock

RelativizedBack ==
    /\ obs.kind = "relativized"
    /\ obs.stage = "there"
    /\ obs' = [obs EXCEPT !.stage = "back",
                          !.out = Relativized(obs.out, Negated(obs.offset))]
    /\ UNCHANGED <<screens, active_screen, global_callbacks, menubar, last_sizes,
                   running, queue, term_size, finish_calls, pc, in_run, snapshot,
                   drained, theme, fps, trail>>
    /\ UNCHANGED mock

NextRelativize ==
    \/ RelativizedThere
    \/ RelativizedBack

SpecRelativize == InitRelativize /\ [][NextRelativize]_vars

(* The phases of a step: the loop runs or is stepped, the backend hands  *)
(* it idle markers and the exit event, another thread sends callbacks.   *)
NextPhases ==
    \/ Run
    \/ Step
    \/ StepRecv
    \/ StepDrainEnd
    \/ StepRender
    \/ StepPoll({Refresh, Exit}, {})
    \/ Send({"add_layer", "noop"})

SpecPhases == InitLayers /\ [][NextPhases]_vars

(* The mouse and the menu bar: the application shows or hides the menu   *)
(* bar, binds global callbacks to mouse events that do not grab focus,   *)
(* pushes layers and steps; the backend reports mouse events on rows 0   *)
(* and 1.                                                                *)
MouseCallbacks == {"noop", "quit"}
HoverEvents == {Mouse(FALSE, <<0, 0>>), Mouse(FALSE, <<0, 1>>)}

NextMouse ==
    \/ ApiSetAutohideMenu
    \/ ApiAddGlobalCallbackOn(HoverEvents, MouseCallbacks)
    \/ ApiAddLayer
    \/ Step
    \/ StepDrainEnd
    \/ StepRender
    \/ StepPoll(MouseEvents, {})

SpecMouse == InitLayers /\ [][NextMouse]_vars

(* The menu bar's row: callbacks that switch autohide are sent by other   *)
(* threads, bound to events and returned by the top layer, and the mouse  *)
(* is used on the first two rows.                                         *)
GeometryCallbacks == {"toggle_autohide"}

GeometryEvents == {Refresh, Mouse(TRUE, <<0, 0>>), Mouse(FALSE, <<0, 1>>)}

NextGeometry ==
    \/ ApiSetAutohideMenu
    \/ ApiAddGlobalCallbackOn({Refresh}, GeometryCallbacks)
    \/ ApiAddLayer
    \/ Step
    \/ StepRecv
    \/ StepDrainEnd
    \/ StepRender
    \/ StepPoll(GeometryEvents, GeometryCallbacks)
    \/ Send(GeometryCallbacks)

SpecGeometry == InitLayers /\ [][NextGeometry]_vars

(* End to end against a scripted backend: poll_event returns the idle      *)
(* marker a number of times and then an event bound to a callback that     *)
(* calls quit(); refresh() calls are counted.                              *)
RECURSIVE Idle(_)
Idle(n) == IF n = 0 THEN <<>> ELSE <<Refresh>> \o Idle(n - 1)

InitE2E ==
    /\ \E quit_event \in HotkeyEvents, n \in 0..MaxIdle, autohide \in BOOLEAN :
         /\ script = [events |-> Idle(n) \o <<quit_event>>, next |-> 1]
         /\ global_callbacks = [e \in Events |->
                                  IF e = quit_event THEN <<"quit">> ELSE <<>>]
         /\ menubar = [MenubarNew EXCEPT !.autohide = autohide]
    /\ screens = <<StackViewNew>>
    /\ active_screen = 0
    /\ last_sizes = <<>>
    /\ running = TRUE
    /\ queue = <<>>
    /\ finish_calls = 0
    /\ pc = "idle"
    /\ in_run = FALSE
    /\ snapshot = <<>>
    /\ drained = <<>>
    /\ obs = NoObs
    /\ theme = "default"
    /\ fps = 0
    /\ trail = <<>>
    /\ term_size \in TermSizes
    /\ frames = 0

E2ERun == frames = 0 /\ Run

E2ERender == Render /\ frames' = frames + 1 /\ UNCHANGED script

E2EPoll ==
    /\ script.next <= Len(script.events)
    /\ Poll(script.events[script.next], {})
    /\ script' = [script EXCEPT !.next = @ + 1]
    /\ UNCHANGED frames

NextE2E ==
    \/ E2ERun
    \/ StepRecv
    \/ StepDrainEnd
    \/ E2ERender
    \/ E2EPoll
    \/ Send({"noop"})
    \/ TermResize

SpecE2E == InitE2E /\ [][NextE2E]_vars

(* The first frames of a root: the application adds screens, switches    *)
(* between them and pushes layers, and the backend counts the frames.    *)
CountedRender == frames < MaxFrames /\ E2ERender

NextShared ==
    \/ ApiAddActiveScreen
    \/ ApiSetScreen
    \/ ApiAddLayer
    \/ Step
    \/ StepDrainEnd
    \/ CountedRender
    \/ StepPoll({Refresh}, {})

SpecShared == InitLayers /\ [][NextShared]_vars

----------------------------------------------------------------------------
(* Claims *)

(* C1: in every step, the callbacks that are in the queue when the step    *)
(* begins run exactly once each, in the order they were sent, and all of   *)
(* them have run before the step's layout and draw: while the drain is     *)
(* under way the callbacks run so far followed by the queue start with     *)
(* the queue of the step's beginning, and once layout and draw are done    *)
(* the callbacks run start with it.                                        *)
C1_DrainFifoBeforeDraw ==
    /\ pc = "drain" => IsPrefix(snapshot, drained \o queue)
    /\ pc \in {"render", "poll"} => IsPrefix(snapshot, drained)

C1_Witness ==
    /\ pc = "poll"
    /\ Len(snapshot) = 2
    /\ snapshot[1] # snapshot[2]
    /\ drained = snapshot

(* C2: when the menu bar is not capturing input and the active screen      *)
(* ignores the polled event, the callbacks bound to exactly that event     *)
(* run once each in registration order, and the table still holds them     *)
(* afterwards, so that the same happens on every later ignored event.      *)
C2_IgnoredRunsBoundCallbacks ==
    [][(pc = "poll" /\ obs'.kind = "dispatch" /\ obs'.route = "screen"
            /\ obs'.result = "Ignored")
        => (/\ obs'.fired = global_callbacks[obs'.event]
            /\ global_callbacks' = global_callbacks)]_vars

C2_Witness ==
    /\ obs.kind = "dispatch"
    /\ obs.route = "screen"
    /\ obs.result = "Ignored"
    /\ Len(obs.fired) = 2
    /\ obs.fired[1] # obs.fired[2]
    /\ obs.fired = global_callbacks[obs.event]

(* C3: whenever the view that receives the polled event, the menu bar      *)
(* included, returns Ignored, the callbacks bound to that event run.       *)
C3_IgnoredByAnyViewRunsCallbacks ==
    [][(pc = "poll" /\ obs'.kind = "dispatch" /\ obs'.result = "Ignored")
        => obs'.fired = global_callbacks[obs'.event]]_vars

(* C4: global callbacks run only when dispatch returned Ignored: after a   *)
(* Consumed answer, with or without a deferred action, none has run.       *)
C4_ConsumedRunsNoGlobalCallback ==
    (obs.kind = "dispatch" /\ obs.result = "Consumed") => obs.fired = <<>>

C4_Witness ==
    /\ obs.kind = "dispatch"
    /\ obs.route = "screen"
    /\ obs.result = "Consumed"
    /\ global_callbacks[obs.event] # <<>>

(* C5: a step that polled the Exit event returns with the running flag     *)
(* false, and a run() loop it belongs to has returned without a further    *)
(* step.                                                                   *)
C5_ExitStopsLoop ==
    (obs.kind = "dispatch" /\ obs.event = Exit)
        => (~running /\ pc = "idle" /\ ~in_run)

C5_Witness ==
    /\ obs.kind = "dispatch"
    /\ obs.event = Exit
    /\ obs.in_run
    /\ pc = "idle"

(* C6: against a backend scripted with n idle markers and then the event   *)
(* bound to quit(), run() returns exactly when the script is used up,      *)
(* with the running flag false and after n + 1 layout/draw cycles (4 for   *)
(* three idle markers).                                                    *)
C6_ScriptedRunFrames ==
    /\ script.next > Len(script.events)
         => (pc = "idle" /\ ~in_run /\ ~running /\ frames = Len(script.events))
    /\ (pc = "idle" /\ frames > 0) => script.next > Len(script.events)

C6_Witness ==
    /\ script.events = <<Refresh, Refresh, Refresh, CharQ>>
    /\ pc = "idle"
    /\ ~in_run
    /\ ~running
    /\ frames = 4

(* C7: layout offers the active screen the terminal's width and its        *)
(* height less one row, never below zero, when autohide is disabled, and   *)
(* the terminal's full size when autohide is enabled.                      *)
C7_LayoutOffer ==
    [][(pc = "render" /\ pc' = "poll")
        => obs'.offered =
             <<term_size[1],
               IF menubar.autohide THEN term_size[2]
               ELSE IF term_size[2] = 0 THEN 0 ELSE term_size[2] - 1>>]_vars

C7_Witness ==
    /\ pc = "poll"
    /\ obs.kind = "frame"
    /\ ~menubar.autohide
    /\ term_size[2] = 0
    /\ obs.offered = <<term_size[1], 0>>

(* C8, as amended: the draw of a tick whose active-screen layer sizes      *)
(* equal the cached ones issues no clear and leaves the cache alone; the   *)
(* draw of a tick whose layer sizes differ clears exactly once and caches  *)
(* the new sizes.                                                          *)
C8_DrawClearsOnChange ==
    [][(pc = "render" /\ pc' = "poll")
        => LET sizes == LayerSizes(screens'[active_screen' + 1])
           IN  IF sizes = last_sizes
               THEN obs'.cleared = 0 /\ last_sizes' = last_sizes
               ELSE obs'.cleared = 1 /\ last_sizes' = sizes]_vars

C8_Witness ==
    /\ pc = "poll"
    /\ obs.kind = "frame"
    /\ obs.same
    /\ obs.cleared = 0
    /\ Len(last_sizes) = 2

(* C8, as stated: over the whole tick no clear is issued when the layer    *)
(* sizes equal the cached ones, and exactly one when they differ.          *)
C8_TickClears ==
    obs.kind = "dispatch" => obs.clears = (IF obs.same THEN 0 ELSE 1)

(* C9: set_screen with an id that is not below the number of screens       *)
(* panics and leaves the active screen and the screens as they were; with  *)
(* a smaller id it makes exactly that id the active screen.                *)
C9_SetScreen ==
    [][(pc = "idle" /\ obs'.kind = "set_screen")
        => IF obs'.id >= Len(screens)
           THEN pc' = "panicked" /\ active_screen' = active_screen
                /\ screens' = screens
           ELSE pc' = "idle" /\ active_screen' = obs'.id]_vars

C9_Witness ==
    /\ pc = "panicked"
    /\ obs.kind = "set_screen"
    /\ obs.id = Len(screens)
    /\ active_screen = 1

(* C10: there is always at least one screen and the active screen is one   *)
(* of them, also after a rejected set_screen.                              *)
C10_ActiveScreenValid ==
    /\ Len(screens) >= 1
    /\ active_screen \in 0..(Len(screens) - 1)

C10_Witness ==
    /\ pc = "panicked"
    /\ Len(screens) = 2
    /\ active_screen = 0
    /\ screens[2] # <<>>

(* C11: add_screen appends one empty screen and returns the number of      *)
(* screens there were before, leaving the active screen and the existing   *)
(* screens as they are; add_active_screen does the same and makes the id   *)
(* it returns the active screen; no step removes a screen, so that the     *)
(* ids successive calls return are pairwise distinct.                      *)
C11_AddScreen ==
    [][/\ Len(screens') >= Len(screens)
       /\ (pc = "idle" /\ obs'.kind \in {"add_screen", "add_active_screen"})
            => (/\ obs'.id = Len(screens)
                /\ screens' = Append(screens, StackViewNew)
                /\ active_screen' = IF obs'.kind = "add_screen"
                                    THEN active_screen ELSE obs'.id)]_vars

C11_Witness ==
    /\ obs.kind = "add_screen"
    /\ obs.id = 2
    /\ Len(screens) = 3
    /\ active_screen = 1
    /\ screens[2] # <<>>
    /\ screens[3] = StackViewNew

(* C12: add_layer, add_fullscreen_layer, pop_layer and reposition_layer  *)
(* do to the active screen's stack what the stack's own method does and  *)
(* leave every other screen, the number of screens and the active        *)
(* screen as they are; set_screen changes no layer of any screen, and    *)
(* the layout and the dispatch of the steps that follow touch the layers *)
(* of the screen it made active only.                                    *)
C12_ActiveScreenOnly ==
    [][/\ (pc = "idle" /\ obs'.kind \in {"add_layer", "add_fullscreen_layer",
                                        "pop_layer", "reposition_layer"})
            => LET mine == screens[active_screen + 1]
               IN  /\ active_screen' = active_screen
                   /\ screens' =
                        [screens EXCEPT ![active_screen + 1] =
                           CASE obs'.kind = "add_layer" -> StackAddLayer(mine)
                             [] obs'.kind = "add_fullscreen_layer" ->
                                  StackAddFullscreenLayer(mine)
                             [] obs'.kind = "pop_layer" -> StackPopLayer(mine)
                             [] OTHER -> StackRepositionLayer(mine, obs'.layer,
                                                              obs'.position)]
       /\ (pc = "idle" /\ obs'.kind = "set_screen") => screens' = screens
       /\ (pc \in {"render", "poll"})
            => (/\ active_screen' = active_screen
                /\ \A i \in 1..Len(screens) :
                      i # active_screen + 1 => screens'[i] = screens[i])]_vars

C12_Witness ==
    /\ pc = "idle"
    /\ obs.kind = "reposition_layer"
    /\ Len(screens) = 2
    /\ active_screen = 1
    /\ Len(screens[1]) = 1
    /\ screens[1][1].placement = "Center"
    /\ screens[1][1].size # <<0, 0>>
    /\ Len(screens[2]) = 1
    /\ screens[2][1].placement = "Moved"
    /\ screens[2][1].size = <<0, 0>>

(* C13, as amended: a step's drain ends only when the queue is empty and *)
(* the callbacks queued at the step's beginning have run, so a callback  *)
(* sent before the end of the drain has run before that step's draw; the *)
(* draw runs no callback, and a callback sent after the end of the drain *)
(* is still queued at the draw and belongs to what the drain of the      *)
(* following step runs before that step's draw.                          *)
C13_DrainedBeforeDraw ==
    [][/\ (pc = "drain" /\ pc' = "render")
            => (queue = <<>> /\ IsPrefix(snapshot, drained))
       /\ (pc = "render" /\ pc' = "poll")
            => (queue' = queue /\ drained' = drained /\ obs'.pending = queue)
       /\ (pc = "poll" /\ pc' = "drain")
            => (/\ queue' = queue /\ snapshot' = queue /\ drained' = <<>>
                /\ IsPrefix(obs'.pending, snapshot'))]_vars

C13_Witness ==
    /\ pc = "render"
    /\ in_run
    /\ obs.kind = "none"
    /\ Len(snapshot) = 2
    /\ snapshot[1] # snapshot[2]
    /\ drained = snapshot
    /\ queue # <<>>

(* C13, as stated: a callback sent at any moment, the time between the   *)
(* end of a step's drain and its draw included, has run before the next  *)
(* draw, i.e. no draw happens with a callback still queued.              *)
C13_NoneQueuedAtDraw ==
    obs.kind = "frame" => obs.pending = <<>>

(* C14: while run() is looping with a nonzero refresh rate, a queue that *)
(* holds a callback is eventually empty again (callbacks leave the queue *)
(* only by being run, oldest first) unless run() returns first; with a   *)
(* refresh rate of 0 and no input, a loop waiting in poll_event stays    *)
(* there and runs no callback, whatever is sent.                         *)
C14_SentCallbacksRun ==
    /\ ((in_run /\ fps > 0 /\ queue # <<>>) ~> (queue = <<>> \/ ~in_run))
    /\ [][(pc = "poll" /\ fps = 0)
            => (pc' = "poll" /\ drained' = drained /\ IsPrefix(queue, queue'))]_vars

C14_Witness ==
    /\ pc = "render"
    /\ in_run
    /\ fps > 0
    /\ obs.kind = "none"
    /\ Len(drained) = 2
    /\ drained = snapshot
    /\ trail = <<"drain">>

(* C15: run() sets the running flag and enters a step whatever the flag  *)
(* was before; it tests the flag only at the end of a step, goes on with *)
(* another step when the flag is true and returns when it is false.      *)
C15_RunRestartable ==
    [][/\ (pc = "idle" /\ obs'.kind = "run")
            => (in_run' /\ running' /\ pc' = "drain")
       /\ (in_run /\ pc # "poll") => in_run'
       /\ (in_run /\ pc = "poll")
            => IF running' THEN in_run' /\ pc' = "drain"
                           ELSE ~in_run' /\ pc' = "idle"]_vars

C15_Witness ==
    /\ pc = "drain"
    /\ in_run
    /\ running
    /\ obs.kind = "run"
    /\ ~obs.was_running
    /\ global_callbacks[CharQ] = <<"quit">>

(* C16: a load_theme or load_theme_file whose text or file does not      *)
(* yield a theme returns the error, keeps the theme, issues no clear and *)
(* leaves the running flag, the screens, the menu bar and the callback   *)
(* table as they are; a load that yields a theme makes it the theme and  *)
(* clears once; the theme changes in no other way than by a successful   *)
(* load or set_theme.                                                    *)
C16_FailedLoadKeepsTheme ==
    [][/\ (pc = "idle" /\ obs'.kind = "load_theme")
            => (/\ IF obs'.loaded.ok
                   THEN obs'.ret = "Ok" /\ theme' = obs'.loaded.theme
                        /\ obs'.clears = 1
                   ELSE obs'.ret = "Err" /\ theme' = theme /\ obs'.clears = 0
                /\ UNCHANGED <<running, screens, active_screen, menubar,
                               global_callbacks, last_sizes, pc>>)
       /\ theme' # theme
            => (\/ obs'.kind = "set_theme"
                \/ obs'.kind = "load_theme" /\ obs'.loaded.ok)]_vars

C16_Witness ==
    /\ pc = "idle"
    /\ obs.kind = "load_theme"
    /\ obs.ret = "Err"
    /\ ~obs.loaded.ok
    /\ theme = "dark"
    /\ ~running
    /\ Len(screens[1]) = 2

(* C17: backend.finish() has been called exactly once when the root is   *)
(* destroyed and not at all before, whether the root is destroyed after  *)
(* a loop that stopped, without any loop, or by a panic; once it is      *)
(* destroyed no method and no step of the loop acts on it or on the      *)
(* backend.                                                              *)
C17_FinishOnce ==
    /\ [](finish_calls = IF pc = "dropped" THEN 1 ELSE 0)
    /\ [][pc = "dropped"
            => UNCHANGED <<pc, finish_calls, obs, trail, screens, active_screen,
                           last_sizes, running, in_run, drained, fps, theme>>]_vars

C17_Witness ==
    /\ pc = "dropped"
    /\ finish_calls = 1
    /\ obs.kind = "drop"
    /\ obs.from = "panicked"
    /\ ~running
    /\ last_sizes = <<>>
    /\ queue # <<>>

(* C18: clear_global_callbacks(e) empties the list bound to e and leaves *)
(* the lists of all other events as they are; add_global_callback(e, cb) *)
(* puts cb after the callbacks already bound to e and leaves the other   *)
(* lists as they are; the table changes in no other way, and an ignored  *)
(* event whose list is empty runs no global callback.                    *)
C18_ClearAndAddGlobalCallbacks ==
    [][/\ (pc = "idle" /\ obs'.kind = "clear_global_callbacks")
            => global_callbacks' =
                 [global_callbacks EXCEPT ![obs'.event] = <<>>]
       /\ (pc = "idle" /\ obs'.kind = "add_global_callback")
            => global_callbacks' =
                 [global_callbacks EXCEPT ![obs'.event] = Append(@, obs'.cb)]
       /\ global_callbacks' # global_callbacks
            => obs'.kind \in {"clear_global_callbacks", "add_global_callback"}
       /\ (pc = "poll" /\ obs'.kind = "dispatch" /\ obs'.result = "Ignored"
               /\ global_callbacks[obs'.event] = <<>>)
            => obs'.fired = <<>>]_vars

C18_Witness ==
    /\ pc = "idle"
    /\ obs.kind = "clear_global_callbacks"
    /\ obs.removed # <<>>
    /\ global_callbacks[obs.event] = <<>>
    /\ \E e \in HotkeyEvents : global_callbacks[e] # <<>>

(* C19: relativizing an event by an offset and the result by the negated *)
(* offset gives the event back, whatever the position and the offset,    *)
(* and relativizing an event that is not a mouse event gives that event. *)
C19_RelativizedRoundTrip ==
    /\ (obs.kind = "relativized" /\ obs.stage = "back") => obs.out = obs.event
    /\ (obs.kind = "relativized" /\ obs.event.kind # "Mouse")
            => obs.out = obs.event

(* C20: the phases a step has gone through are always a beginning of     *)
(* drain, layout, draw, refresh, poll_event, pre-dispatch, dispatch, and *)
(* a finished step has gone through all of them, each once; the drain is *)
(* over before layout starts and the frame is out before poll_event is   *)
(* called; the step is over after the dispatch of the one event it       *)
(* polled; and before poll_event the loop thread can always go on by     *)
(* itself (within the bounds on layers), while it leaves poll_event only *)
(* with the event the backend hands it.                                  *)
C20_StepPhases ==
    /\ IsPrefix(trail, StepPhases)
    /\ pc = "idle" => trail = <<>>
    /\ pc \in {"drain", "render"} => trail = SubSeq(StepPhases, 1, 1)
    /\ pc = "poll" => (trail = SubSeq(StepPhases, 1, 5) /\ obs.kind = "frame")
    /\ obs.kind = "dispatch" => (obs.trail = StepPhases /\ pc \in {"drain", "idle"})
    /\ (pc = "drain" /\ queue = <<>>) => ENABLED StepDrainEnd
    /\ (pc = "drain" /\ queue # <<>> /\ Layers(screens) < MaxLayers)
          => ENABLED StepRecv
    /\ pc = "render" => ENABLED StepRender

C20_Witness ==
    /\ pc = "idle"
    /\ obs.kind = "dispatch"
    /\ obs.trail = StepPhases
    /\ obs.event = Refresh
    /\ obs.result = "Consumed"
    /\ obs.pending # <<>>
    /\ screens[1] # <<>>

(* C21: when the event goes to the screen, the screen is handed the      *)
(* event relativized by the menu bar's row (a mouse position one row up  *)
(* when autohide is disabled), and when the screen ignores it exactly    *)
(* the callbacks bound to the event as polled run, not those bound to    *)
(* the relativized event.                                                *)
C21_LookupWithPolledEvent ==
    [][(pc = "poll" /\ obs'.kind = "dispatch" /\ obs'.route = "screen")
        => (/\ obs'.delivered =
                  IF obs'.event.kind = "Mouse"
                  THEN [obs'.event EXCEPT !.pos =
                          <<@[1], IF menubar.autohide \/ @[2] = 0
                                  THEN @[2] ELSE @[2] - 1>>]
                  ELSE obs'.event
            /\ obs'.result = "Ignored"
                  => obs'.fired = global_callbacks[obs'.event])]_vars

C21_Witness ==
    /\ obs.kind = "dispatch"
    /\ obs.route = "screen"
    /\ obs.result = "Ignored"
    /\ obs.event = Mouse(FALSE, <<0, 1>>)
    /\ obs.delivered = Mouse(FALSE, <<0, 0>>)
    /\ obs.fired = <<"noop">>
    /\ global_callbacks[obs.event] = <<"noop">>
    /\ global_callbacks[obs.delivered] = <<"quit">>

(* C22: the polled event goes to the menu bar, as it is, when the menu   *)
(* bar receives events at dispatch (it was selected or open before, or   *)
(* the pre-dispatch just selected it), and otherwise to the active       *)
(* screen, relativized by no row when autohide is enabled and by one     *)
(* row when it is disabled; never to both.                               *)
C22_MenubarOrScreen ==
    [][(pc = "poll" /\ obs'.kind = "dispatch")
        => LET e == obs'.event
               selected == /\ e.kind = "Mouse" /\ e.grabs /\ e.pos[2] = 0
                           /\ ~menubar.autohide /\ menubar.state # "Submenu"
           IN  IF menubar.state # "Inactive" \/ selected
               THEN obs'.route = "menubar" /\ obs'.delivered = e
               ELSE /\ obs'.route = "screen"
                    /\ obs'.delivered =
                         Relativized(e, <<0, IF menubar.autohide THEN 0 ELSE 1>>)]_vars

C22_Witness ==
    /\ obs.kind = "dispatch"
    /\ obs.route = "menubar"
    /\ obs.event = Mouse(FALSE, <<0, 1>>)
    /\ obs.delivered = obs.event
    /\ ~menubar.autohide
    /\ screens[1] # <<>>
    /\ obs.result = "Ignored"
    /\ obs.fired = <<>>
    /\ global_callbacks[obs.event] # <<>>

(* C24: the pre-dispatch calls select_menubar exactly when the polled    *)
(* event is a focus-grabbing mouse event on row 0, autohide is disabled  *)
(* and the menu bar has no open submenu; the event then goes to the menu *)
(* bar and not to the screen.                                            *)
C24_FocusRedirect ==
    [][(pc = "poll" /\ obs'.kind = "dispatch")
        => LET e == obs'.event
           IN  /\ obs'.redirect
                    <=> (/\ e.kind = "Mouse" /\ e.grabs /\ e.pos[2] = 0
                         /\ ~menubar.autohide /\ menubar.state # "Submenu")
               /\ obs'.redirect => obs'.route = "menubar"]_vars

C24_Witness ==
    /\ obs.kind = "dispatch"
    /\ obs.redirect
    /\ obs.route = "menubar"
    /\ obs.event = Mouse(TRUE, <<0, 0>>)
    /\ screens[1] # <<>>
    /\ ~menubar.autohide

(* C23: a step whose event was answered Consumed with a deferred action  *)
(* invokes that action once, on the root as the pre-dispatch left it,    *)
(* and nothing else; the step is over with it and the drain of the next  *)
(* step has not begun; Consumed without an action and Ignored invoke no  *)
(* deferred action.                                                      *)
C23_DeferredActionOnce ==
    [][(pc = "poll" /\ obs'.kind = "dispatch")
        => IF obs'.result = "Consumed" /\ obs'.action # "none"
           THEN /\ obs'.deferred = <<obs'.action>>
                /\ obs'.fired = <<>>
                /\ obs'.action = "pop_layer"
                     => screens' = [screens EXCEPT ![active_screen + 1] =
                                      StackPopLayer(@)]
                /\ obs'.action = "quit" => ~running'
                /\ pc' \in {"idle", "drain"}
                /\ drained' = <<>>
           ELSE /\ obs'.deferred = <<>>
                /\ obs'.result = "Consumed" => UNCHANGED <<screens, active_screen>>]_vars

C23_Witness ==
    /\ obs.kind = "dispatch"
    /\ obs.route = "screen"
    /\ obs.result = "Consumed"
    /\ obs.action = "pop_layer"
    /\ obs.deferred = <<"pop_layer">>
    /\ global_callbacks[obs.event] # <<>>
    /\ pc = "drain"
    /\ screens[1] = <<>>

(* C25: the step that polls WindowResize clears the canvas once after the  *)
(* poll, whether or not the draw of that step found the layer sizes equal  *)
(* to the cached ones, and leaves the cache alone; the clear is issued in  *)
(* that step, hence before the draw of any later step.                     *)
C25_ResizeClears ==
    [][(pc = "poll" /\ obs'.kind = "dispatch" /\ obs'.event = WindowResize)
        => /\ obs'.clears = obs.cleared + 1
           /\ last_sizes' = last_sizes
           /\ pc' \in {"idle", "drain"}]_vars

C25_Witness ==
    /\ obs.kind = "dispatch"
    /\ obs.event = WindowResize
    /\ obs.same
    /\ obs.clears = 1
    /\ Len(last_sizes) = 1
    /\ active_screen = 1

(* C26: a quit() run by a drained callback leaves the step in its drain   *)
(* and run() looping; run() returns only at the end of a step that went   *)
(* through layout, draw, refresh and poll_event; and a polled Exit clears *)
(* the flag and is still handed to the menu bar or the screen and, when   *)
(* that view ignores it, to the callbacks bound to Exit.                  *)
C26_CooperativeStop ==
    [][/\ (pc = "drain" /\ running /\ ~running')
            => (pc' = "drain" /\ in_run' = in_run)
       /\ (in_run /\ ~in_run')
            => (pc = "poll" /\ obs'.kind = "dispatch" /\ obs'.trail = StepPhases)
       /\ (pc = "poll" /\ obs'.kind = "dispatch" /\ obs'.event = Exit)
            => (/\ ~running'
                /\ obs'.route \in {"menubar", "screen"}
                /\ obs'.delivered = Exit
                /\ obs'.result = "Ignored"
                     => obs'.fired = global_callbacks[Exit])]_vars

(* C27: in a step, layout, draw and (when the event goes to the screen)   *)
(* dispatch use the same row offset, 1 when autohide is disabled and 0    *)
(* when it is enabled, as the flag was when the drain ended; the flag     *)
(* does not change between the end of the drain and the dispatch, and     *)
(* changes inside a step only by a callback of the drain or of the        *)
(* dispatch, the latter after the dispatch offset was taken.              *)
C27_SameOffset ==
    [][/\ (pc = "render" /\ pc' = "poll")
            => (/\ obs'.offsets = <<<<"layout", MenuOffset(menubar)>>,
                                    <<"draw", MenuOffset(menubar)>>>>
                /\ menubar'.autohide = menubar.autohide)
       /\ (pc = "poll" /\ obs'.kind = "dispatch")
            => (/\ obs.kind = "frame"
                /\ obs.offsets[1][2] = MenuOffset(menubar)
                /\ obs'.offsets =
                     obs.offsets \o
                       (IF obs'.route = "screen"
                        THEN <<<<"dispatch", MenuOffset(menubar)>>>>
                        ELSE <<>>)
                /\ menubar'.autohide # menubar.autohide
                     => "toggle_autohide" \in
                          {obs'.action} \cup
                          {obs'.fired[i] : i \in 1..Len(obs'.fired)})
       /\ (pc = "drain" /\ menubar'.autohide # menubar.autohide)
            => (pc' = "drain" /\ drained' = Append(drained, "toggle_autohide"))]_vars

C27_Witness ==
    /\ obs.kind = "dispatch"
    /\ obs.route = "screen"
    /\ obs.offsets = <<<<"layout", 1>>, <<"draw", 1>>, <<"dispatch", 1>>>>
    /\ obs.fired = <<"toggle_autohide">>
    /\ menubar.autohide
    /\ drained = <<>>
    /\ "toggle_autohide" \in {obs.pending[i] : i \in 1..Len(obs.pending)}

(* C28: the callbacks run for an ignored event are those the table held   *)
(* for it when the dispatch began, all of them and in order, also when    *)
(* one of them binds a further callback to the event or removes the       *)
(* event's callbacks; the table the step leaves behind holds the change,  *)
(* so that it is the list of the next ignored occurrence.                 *)
C28_DispatchSnapshot ==
    [][(pc = "poll" /\ obs'.kind = "dispatch" /\ obs'.route = "screen"
            /\ obs'.result = "Ignored" /\ obs'.event = CharQ)
        => LET before == global_callbacks[CharQ]
               cleared == {i \in 1..Len(before) : before[i] = "clear_callbacks"}
               last == IF cleared = {} THEN 0
                       ELSE CHOOSE i \in cleared : \A j \in cleared : j <= i
               added == SelectSeq(SubSeq(before, last + 1, Len(before)),
                                  LAMBDA cb : cb = "add_callback")
           IN  /\ obs'.fired = before
               /\ global_callbacks'[CharQ] =
                    (IF cleared = {} THEN before ELSE <<>>)
                       \o [i \in 1..Len(added) |-> "noop"]]_vars

C28_Witness ==
    /\ obs.kind = "dispatch"
    /\ obs.route = "screen"
    /\ obs.result = "Ignored"
    /\ obs.event = CharQ
    /\ obs.fired = <<"clear_callbacks", "add_callback">>
    /\ global_callbacks[CharQ] = <<"noop">>

(* C29: the drain runs the oldest queued callback and puts what that      *)
(* callback sends behind everything queued before; it ends only with the  *)
(* queue empty, taking nothing, and with the queue empty it can end at    *)
(* once; so a callback sent during the drain runs in that drain, and a    *)
(* step that has run a callback which sends a copy of itself is still in  *)
(* its drain with that copy queued.                                       *)
C29_DrainUntilEmpty ==
    [][/\ (pc = "drain" /\ drained' # drained)
            => (/\ queue # <<>>
                /\ drained' = Append(drained, Head(queue))
                /\ queue' = Tail(queue) \o
                     (CASE Head(queue) = "resend" -> <<"resend">>
                        [] Head(queue) = "send_noop" -> <<"noop">>
                        [] OTHER -> <<>>)
                /\ pc' = "drain")
       /\ (pc = "drain" /\ pc' = "render")
            => (queue = <<>> /\ queue' = queue /\ drained' = drained)
       /\ (pc = "drain" /\ queue = <<>>) => ENABLED StepDrainEnd
       /\ (pc' \in {"drain", "render", "poll"}
              /\ \E i \in 1..Len(drained') : drained'[i] = "resend")
            => (pc' = "drain" /\ \E i \in 1..Len(queue') : queue'[i] = "resend")]_vars

C29_Witness ==
    /\ pc = "render"
    /\ snapshot = <<"send_noop">>
    /\ drained = <<"send_noop", "noop", "noop">>
    /\ queue = <<>>

(* C30: there is one cache of layer sizes for all screens: switching the  *)
(* active screen leaves it alone, a draw clears exactly when the sizes of *)
(* the screen that is active now differ from it and then caches those,    *)
(* so a screen shown for the first time with the sizes of the screen      *)
(* drawn before is drawn without a clear; and the first frame of a root   *)
(* whose active screen has no layers is drawn without a clear.            *)
C30_SharedCache ==
    [][/\ (pc = "idle" /\ obs'.kind \in {"set_screen", "add_active_screen"})
            => last_sizes' = last_sizes
       /\ (pc = "render" /\ pc' = "poll")
            => LET sizes == LayerSizes(screens'[active_screen' + 1])
               IN  /\ (obs'.cleared = 0) <=> (sizes = last_sizes)
                   /\ obs'.cleared <= 1
                   /\ last_sizes' = sizes
       /\ (frames = 0 /\ frames' = 1 /\ screens[active_screen + 1] = <<>>)
            => (obs'.cleared = 0 /\ last_sizes' = <<>>)]_vars

C30_Witness ==
    /\ frames = 2
    /\ pc = "poll"
    /\ obs.kind = "frame"
    /\ obs.cleared = 0
    /\ active_screen = 1
    /\ Len(screens) = 2
    /\ Len(screens[1]) = 1
    /\ screens[1][1].size = LayerReq
    /\ screens[2] = screens[1]
    /\ last_sizes = <<LayerReq>>

====
